---- MODULE Spec2Model ----
(***************************************************************************)
(* Word Constellations (src/script.js): the simulation state STATE, the    *)
(* operations resize, createNode, the form submit handler and frame (which *)
(* runs step and rebuildLinks).                                            *)
(*                                                                         *)
(* Units.  Positions are whole pixels, times whole milliseconds (so the    *)
(* dt of the code, in seconds, is dt/1000 here), phases 1e-4 rad, angular  *)
(* speeds 0.1 rad/s, masses tenths.  A quotient of the code that does not  *)
(* fall on the grid is rounded to the nearest grid value (RoundDiv).       *)
(* Math.random() and noise2() are inputs drawn from small sets.  The       *)
(* render-only fields of a node (radius, hue, angle, angularVel,           *)
(* turbulencePhase) and the canvas calls are left out: nothing modelled    *)
(* here reads them.                                                        *)
(***************************************************************************)
EXTENDS Integers, Sequences, FiniteSets, TLC

VARIABLES
  width, height,   \* STATE.width, STATE.height
  nodes,           \* STATE.nodes
  links,           \* STATE.links
  lastTime,        \* STATE.lastTime
  now,             \* performance.now(), a monotone clock
  \* history of the last operation, read only by the properties
  last,            \* which operation ran last
  arg,             \* the text the last createNode / submit was given
  pre,             \* STATE.nodes before the last operation
  frames,          \* number of frame() calls so far
  prevTime,        \* `time` of the frame before the last one
  curTime,         \* `time` of the last frame
  dt,              \* dt the last frame passed to step (ms)
  ran,             \* the last operation was a frame whose step got past line 127
  obs,             \* per node: position the wrap checks of the last step saw, teleports per axis
  evals,           \* the pair evaluations of the last step's force pass, in order
  hist             \* per node: every trail sample ever pushed, in order

vars == <<width, height, nodes, links, lastTime, now, last, arg, pre, frames,
          prevTime, curTime, dt, ran, obs, evals, hist>>

----------------------------------------------------------------------------
(* Program constants *)

trailKeep == 40
constellationDistance == 120
minLinkDistance == 48
maxLinkDistance == 320
repulsionDistance == 24
wrapMargin == 40
wrapSpread == 200
defaultDt == 16
maxDt == 33

(* Bounds of the model *)

MaxNodes == 2
MaxFrames == 2
InputFrames == 3
InputNodes == 1
WrapNodes == 2
WrapFrames == 2
TrailNodes == 1
TrailFrames == 42

----------------------------------------------------------------------------
(* JavaScript values: a number, undefined or NaN *)

Num(v) == [k |-> "num", v |-> v]
Undefined == [k |-> "undefined", v |-> 0]
NaN == [k |-> "NaN", v |-> 0]
IsNum(a) == a.k = "num"

\* a + d for a number d: undefined + d and NaN + d are NaN
JsAdd(a, d) == IF a.k = "num" THEN Num(a.v + d) ELSE NaN

\* t || 0 : undefined, NaN and 0 are falsy
OrZero(t) == IF t.k = "num" THEN t.v ELSE 0

Abs(a) == IF a < 0 THEN -a ELSE a

\* a / b rounded to the nearest integer, b > 0
RoundDiv(a, b) == IF a >= 0 THEN (2 * a + b) \div (2 * b)
                            ELSE -((2 * (-a) + b) \div (2 * b))

Max2(a, b) == IF a >= b THEN a ELSE b
Min2(a, b) == IF a <= b THEN a ELSE b

clamp(v, a, b) == Max2(a, Min2(b, v))

----------------------------------------------------------------------------
(* Text: a string is a sequence of characters; String.prototype.trim *)

WhiteSpace == {" ", "\t", "\n"}

RECURSIVE TrimStart(_)
TrimStart(s) == IF s # <<>> /\ Head(s) \in WhiteSpace THEN TrimStart(Tail(s)) ELSE s

RECURSIVE TrimEnd(_)
TrimEnd(s) == IF s # <<>> /\ s[Len(s)] \in WhiteSpace
              THEN TrimEnd(SubSeq(s, 1, Len(s) - 1)) ELSE s

Trim(s) == TrimEnd(TrimStart(s))

----------------------------------------------------------------------------
(* Node constructor.  sd holds the constructor's Math.random() draws.  vx  *)
(* and vy are never assigned by the constructor: they read as undefined.   *)

Node(text, x, y, sd) ==
  [ text |-> text, x |-> x, y |-> y,
    vx |-> Undefined, vy |-> Undefined,
    mass |-> sd.mass,
    trail |-> <<>>,
    inConstellation |-> FALSE,
    orbitCenterX |-> x + sd.cx,
    orbitCenterY |-> y + sd.cy,
    orbitRadius |-> sd.orbitRadius,
    orbitSpeed |-> sd.orbitSpeed,
    orbitDirection |-> IF sd.du > 0 THEN 1 ELSE -1,
    orbitPhase |-> sd.orbitPhase,
    secondaryCenterX |-> x + sd.cx + sd.sx,
    secondaryCenterY |-> y + sd.cy + sd.sy,
    secondaryRadius |-> sd.secondaryRadius,
    secondarySpeed |-> sd.secondarySpeed,
    secondaryDirection |-> IF sd.sdu > 0 THEN 1 ELSE -1,
    secondaryPhase |-> sd.secondaryPhase ]

----------------------------------------------------------------------------
(* rebuildLinks *)

DistSq(a, b) == (b.x - a.x) * (b.x - a.x) + (b.y - a.y) * (b.y - a.y)

RECURSIVE PairsFrom(_, _, _, _)
PairsFrom(i, j, n, off) ==
  IF i > n THEN <<>>
  ELSE IF j > n THEN PairsFrom(i + 1, i + 1 + off, n, off)
  ELSE << <<i, j>> >> \o PairsFrom(i, j + 1, n, off)

\* for (i = 0 ..) for (j = i + 1 ..): the index pairs in loop order (1-based)
LinkPairs(n) == PairsFrom(1, 2, n, 1)

\* Math.hypot(dx, dy) < constellationDistance, on whole pixels
LinkTestLE(a, b) == DistSq(a, b) <= constellationDistance * constellationDistance
LinkTest(a, b) == DistSq(a, b) < constellationDistance * constellationDistance

RECURSIVE LinksOver(_, _, _)
LinksOver(ns, ps, k) ==
  IF k > Len(ps) THEN <<>>
  ELSE LET i == ps[k][1]
           j == ps[k][2]
       IN (IF LinkTest(ns[i], ns[j])
           THEN << [i |-> i, j |-> j, dSq |-> DistSq(ns[i], ns[j])] >>
           ELSE <<>>) \o LinksOver(ns, ps, k + 1)

\* the `d` of a link record is kept squared (dSq): the grid has no square roots
rebuildLinks(ns) == LinksOver(ns, LinkPairs(Len(ns)), 1)

----------------------------------------------------------------------------
(* step: the pairwise pass.  dist = Math.sqrt(distSq) + 1e-6; for a whole  *)
(* distSq and a whole K, dist < K iff distSq < K*K, and dist > K iff       *)
(* distSq >= K*K (K*K - (K - 1e-6)^2 < 1).                                 *)

DistLT(distSq, K) == distSq < K * K
DistGT(distSq, K) == distSq >= K * K

ForcePairs(n) == PairsFrom(1, 2, n, 1)

\* PHYS.maxLinkDistance * 1.25
AttractRange == (maxLinkDistance * 5) \div 4

\* the forces lines 150-175 apply to a pair at this distance
PairForcesBoth(distSq) ==
  (IF DistLT(distSq, AttractRange) /\ DistGT(distSq, minLinkDistance)
   THEN {"attract"} ELSE {})
  \cup (IF DistLT(distSq, AttractRange) /\ DistLT(distSq, minLinkDistance + 1)
        THEN {"repel"} ELSE {})
PairForces(distSq) ==
  IF DistLT(distSq, AttractRange)
  THEN IF DistGT(distSq, minLinkDistance) THEN {"attract"}
       ELSE IF DistLT(distSq, repulsionDistance) THEN {"repel"}
       ELSE {}
  ELSE {}

\* fx * dt * mass, up to the positive factor strength / dist: its sign and
\* whether it is zero are those of the code's value
Impulse(d, dtv, m) == d * dtv * m

InRangeWide(distSq) == DistLT(distSq, maxLinkDistance)
InRange(distSq) == DistLT(distSq, constellationDistance)

ApplyPair(ns, i, j, dtv) ==
  LET a == ns[i]
      b == ns[j]
      dx == b.x - a.x
      dy == b.y - a.y
      distSq == dx * dx + dy * dy
      near == InRange(distSq)
      f == PairForces(distSq)
      sa == IF "attract" \in f THEN 1 ELSE 0
      sr == IF "repel" \in f THEN 1 ELSE 0
      a1 == IF near THEN [a EXCEPT !.inConstellation = TRUE] ELSE a
      b1 == IF near THEN [b EXCEPT !.inConstellation = TRUE] ELSE b
      a2 == IF sa = 1
            THEN [a1 EXCEPT !.vx = JsAdd(@, Impulse(dx, dtv, b.mass)),
                            !.vy = JsAdd(@, Impulse(dy, dtv, b.mass))]
            ELSE a1
      b2 == IF sa = 1
            THEN [b1 EXCEPT !.vx = JsAdd(@, -Impulse(dx, dtv, a.mass)),
                            !.vy = JsAdd(@, -Impulse(dy, dtv, a.mass))]
            ELSE b1
      a3 == IF sr = 1
            THEN [a2 EXCEPT !.vx = JsAdd(@, -Impulse(dx, dtv, b.mass)),
                            !.vy = JsAdd(@, -Impulse(dy, dtv, b.mass))]
            ELSE a2
      b3 == IF sr = 1
            THEN [b2 EXCEPT !.vx = JsAdd(@, Impulse(dx, dtv, a.mass)),
                            !.vy = JsAdd(@, Impulse(dy, dtv, a.mass))]
            ELSE b2
  IN [ ns |-> [ns EXCEPT ![i] = a3, ![j] = IF j = i THEN a3 ELSE b3],
       ev |-> [i |-> i, j |-> j, distSq |-> distSq, forces |-> f] ]

RECURSIVE ForceLoop(_, _, _, _, _)
ForceLoop(ns, log, ps, k, dtv) ==
  IF k > Len(ps) THEN [ns |-> ns, log |-> log]
  ELSE LET r == ApplyPair(ns, ps[k][1], ps[k][2], dtv)
       IN ForceLoop(r.ns, Append(log, r.ev), ps, k + 1, dtv)

\* lines 129-177: reset the flags, then the pairwise pass
ForcePassNoReset(ns, dtv) == ForceLoop(ns, <<>>, ForcePairs(Len(ns)), 1, dtv)
ForcePass(ns, dtv) ==
  ForceLoop([i \in 1..Len(ns) |-> [ns[i] EXCEPT !.inConstellation = FALSE]],
            <<>>, ForcePairs(Len(ns)), 1, dtv)

----------------------------------------------------------------------------
(* step: the orbital motion of one node.  Math.cos and Math.sin are        *)
(* tabulated per octant of the phase, times 10.                            *)

Octant(phase) == ((phase % 62832) * 8) \div 62832 + 1
CosT(phase) == <<10, 7, 0, -7, -10, -7, 0, 7>>[Octant(phase)]
SinT(phase) == <<0, 7, 10, 7, 0, -7, -10, -7>>[Octant(phase)]

\* (noise2(..) - 0.5) * coefficient * dt, with nz = 10 * (noise2(..) - 0.5)
\* and the coefficient given in 1/100
NoiseTerm(nz, c100, dtv) == RoundDiv(nz * c100 * dtv, 1000000)

\* lines 190-191
Advance(phase, speed, dir, dtv) == phase + speed * dir * dtv

\* lines 207-209: n.x += (target - n.x) * moveSpeed * dt
SeekNoDt(x, target, dtv) == x + RoundDiv((target - x) * 2 * maxDt, 1000)
Seek(x, target, dtv) == x + RoundDiv((target - x) * 2 * dtv, 1000)

\* lines 222-229 (x) and 230-237 (y): the two checks of one axis, in order;
\* r1, r2 are the rand(-200, 200) draws; k counts the teleports
WrapAxisTwice(v, c, size, r1, r2) ==
  LET s1 == IF v < -wrapMargin
            THEN [v |-> size + wrapMargin + 1, c |-> size + wrapMargin + 1 + r1, k |-> 1]
            ELSE [v |-> v, c |-> c, k |-> 0]
  IN IF s1.v > size + wrapMargin
     THEN [v |-> -wrapMargin, c |-> -wrapMargin + r2, k |-> s1.k + 1]
     ELSE s1
WrapAxis(v, c, size, r1, r2) ==
  LET s1 == IF v < -wrapMargin
            THEN [v |-> size + wrapMargin, c |-> size + wrapMargin + r1, k |-> 1]
            ELSE [v |-> v, c |-> c, k |-> 0]
  IN IF s1.v > size + wrapMargin
     THEN [v |-> -wrapMargin, c |-> -wrapMargin + r2, k |-> s1.k + 1]
     ELSE s1

\* lines 240-241
PushKeepOldest(trail, s) ==
  IF Len(trail) + 1 > trailKeep THEN SubSeq(Append(trail, s), 1, trailKeep)
  ELSE Append(trail, s)
Push(trail, s) ==
  LET t == Append(trail, s)
  IN IF Len(t) > trailKeep THEN Tail(t) ELSE t

\* lines 180-219 for one node: the drift of the centres, the phases, the
\* seek and the jitter; nz is what its noise2 calls return
Glide(n, dtv, nz) ==
  LET ocx == n.orbitCenterX + NoiseTerm(nz, 5, dtv)
      ocy == n.orbitCenterY + NoiseTerm(nz, 5, dtv)
      scx == n.secondaryCenterX + NoiseTerm(nz, 5, dtv)
      scy == n.secondaryCenterY + NoiseTerm(nz, 5, dtv)
      oph == Advance(n.orbitPhase, n.orbitSpeed, n.orbitDirection, dtv)
      sph == Advance(n.secondaryPhase, n.secondarySpeed, n.secondaryDirection, dtv)
      primaryX == ocx + RoundDiv(CosT(oph) * n.orbitRadius, 10)
      primaryY == ocy + RoundDiv(SinT(oph) * n.orbitRadius, 10)
      secondaryX == scx + RoundDiv(CosT(sph) * n.secondaryRadius, 10)
      secondaryY == scy + RoundDiv(SinT(sph) * n.secondaryRadius, 10)
      targetX == RoundDiv(7 * primaryX + 3 * secondaryX, 10)
      targetY == RoundDiv(7 * primaryY + 3 * secondaryY, 10)
      x1 == Seek(n.x, targetX, dtv)
      y1 == Seek(n.y, targetY, dtv)
  IN [n EXCEPT !.orbitCenterX = ocx, !.orbitCenterY = ocy,
               !.secondaryCenterX = scx, !.secondaryCenterY = scy,
               !.orbitPhase = oph, !.secondaryPhase = sph,
               !.x = x1 + NoiseTerm(nz, 30, dtv),
               !.y = y1 + NoiseTerm(nz, 30, dtv)]

\* lines 221-241 for one node: the wrap and the trail
Settle(g, w, h, clock, rx1, rx2, ry1, ry2) ==
  LET wx == WrapAxis(g.x, g.orbitCenterX, w, rx1, rx2)
      wy == WrapAxis(g.y, g.orbitCenterY, h, ry1, ry2)
  IN [ node |-> [g EXCEPT !.orbitCenterX = wx.c, !.orbitCenterY = wy.c,
                          !.x = wx.v, !.y = wy.v,
                          !.trail = Push(@, [x |-> wx.v, y |-> wy.v, t |-> clock])],
       ob |-> [x |-> g.x, y |-> g.y, tx |-> wx.k, ty |-> wy.k] ]

\* what noise2 returns, as 10 * (noise2 - 0.5): a value of [0, 1)
NoiseSamples == {-5, 4}
\* what rand(-200, 200) returns
WrapOffsets == {-wrapSpread, wrapSpread - 1}

\* rand is drawn only where a wrap branch calls it
WrapDraws(v, size) ==
  IF v < -wrapMargin \/ v > size + wrapMargin THEN WrapOffsets ELSE {0}

MoveOutcomes(n, dtv, w, h, clock) ==
  UNION { LET g == Glide(n, dtv, nz)
          IN { Settle(g, w, h, clock, rx1, rx2, ry1, ry2) :
                 rx1 \in WrapDraws(g.x, w), rx2 \in WrapDraws(g.x, w),
                 ry1 \in WrapDraws(g.y, h), ry2 \in WrapDraws(g.y, h) } :
          nz \in NoiseSamples }

\* all sequences picking one element of each set of a sequence of sets
RECURSIVE Choices(_)
Choices(ss) ==
  IF ss = <<>> THEN { <<>> }
  ELSE { <<e>> \o rest : e \in Head(ss), rest \in Choices(Tail(ss)) }

\* step(dt): the set of states it can leave, with what the properties read
step(ns, ls, dtv, w, h, clock) ==
  IF Len(ns) = 0
  THEN { [nodes |-> ns, links |-> ls, ran |-> FALSE, obs |-> <<>>, evals |-> <<>>] }
  ELSE LET fp == ForcePass(ns, dtv)
           outs == Choices([i \in 1..Len(ns) |-> MoveOutcomes(fp.ns[i], dtv, w, h, clock)])
       IN { LET moved == [i \in 1..Len(ns) |-> o[i].node]
            IN [ nodes |-> moved,
                 links |-> rebuildLinks(moved),
                 ran |-> TRUE,
                 obs |-> [i \in 1..Len(ns) |-> o[i].ob],
                 evals |-> fp.log ] : o \in outs }

----------------------------------------------------------------------------
(* Operations *)

\* lines 21-29; w, h are window.innerWidth, window.innerHeight
resize(w, h) ==
  /\ width' = w
  /\ height' = h
  /\ last' = "resize"
  /\ arg' = <<>>
  /\ pre' = nodes
  /\ ran' = FALSE
  /\ UNCHANGED <<nodes, links, lastTime, now, frames, prevTime, curTime, dt,
                 obs, evals, hist>>

\* lines 100-103, called with x and y given
createNode(text, x, y, sd) ==
  /\ nodes' = Append(nodes, Node(text, x, y, sd))
  /\ hist' = Append(hist, <<>>)
  /\ last' = "create"
  /\ arg' = text
  /\ pre' = nodes
  /\ ran' = FALSE
  /\ UNCHANGED <<width, height, links, lastTime, now, frames, prevTime,
                 curTime, dt, obs, evals>>

\* the guard of line 384: !text
IsEmpty(text) == text = <<>>

\* lines 381-389; value is input.value, px and py the percentages drawn by
\* rand(width * 0.3, width * 0.7) and rand(height * 0.3, height * 0.7)
submit(value, px, py, sd) ==
  LET text == Trim(value)
  IN /\ last' = "submit"
     /\ arg' = value
     /\ pre' = nodes
     /\ ran' = FALSE
     /\ IF IsEmpty(text)
        THEN UNCHANGED <<nodes, hist>>
        ELSE /\ nodes' = Append(nodes, Node(text, (width * px) \div 100,
                                            (height * py) \div 100, sd))
             /\ hist' = Append(hist, <<>>)
     /\ UNCHANGED <<width, height, links, lastTime, now, frames, prevTime,
                    curTime, dt, obs, evals>>

\* line 364
FrameDt(time, lt) == IF lt # 0 THEN clamp(time - lt, 0, maxDt) ELSE defaultDt

\* lines 362-373; t is the timestamp the host passes
frame(t) ==
  LET time == OrZero(t)
      dtv == FrameDt(time, lastTime)
  IN /\ lastTime' = time
     /\ now' = now + 1
     /\ \E out \in step(nodes, links, dtv, width, height, now + 1) :
          /\ nodes' = out.nodes
          /\ links' = out.links
          /\ ran' = out.ran
          /\ obs' = out.obs
          /\ evals' = out.evals
          /\ hist' = [i \in 1..Len(hist) |->
                        IF out.ran
                        THEN Append(hist[i], [x |-> out.nodes[i].x, y |-> out.nodes[i].y,
                                              t |-> now + 1])
                        ELSE hist[i]]
     /\ last' = "frame"
     /\ arg' = <<>>
     /\ pre' = nodes
     /\ frames' = frames + 1
     /\ prevTime' = curTime
     /\ curTime' = time
     /\ dt' = dtv
     /\ UNCHANGED <<width, height>>

----------------------------------------------------------------------------
(* Specifications *)

InitWith(Szs) ==
  /\ \E s \in Szs : width = s[1] /\ height = s[2]
  /\ nodes = <<>>
  /\ links = <<>>
  /\ lastTime = 0
  /\ now = 0
  /\ last = "init"
  /\ arg = <<>>
  /\ pre = <<>>
  /\ frames = 0
  /\ prevTime = 0
  /\ curTime = 0
  /\ dt = 0
  /\ ran = FALSE
  /\ obs = <<>>
  /\ evals = <<>>
  /\ hist = <<>>

(* The inputs the operations are given *)

\* the constructor's draws of a node whose orbit pulls it to the right, and
\* of one whose orbit pulls it to the left
SeedOut == [mass |-> 6, cx |-> 199, cy |-> 0, orbitRadius |-> 299,
            orbitSpeed |-> 3, du |-> 5, orbitPhase |-> 0,
            sx |-> 79, sy |-> 0, secondaryRadius |-> 149,
            secondarySpeed |-> 8, sdu |-> 5, secondaryPhase |-> 0]
SeedIn == [mass |-> 15, cx |-> -200, cy |-> -200, orbitRadius |-> 120,
           orbitSpeed |-> 11, du |-> -10, orbitPhase |-> 31416,
           sx |-> -80, sy |-> -80, secondaryRadius |-> 60,
           secondarySpeed |-> 24, sdu |-> -10, secondaryPhase |-> 31416]

Seeds == {SeedOut, SeedIn}

Word == <<"a">>
Blank == <<" ", " ">>

NextWith(Szs, Pts, Sds, Txts, Vals, Ts, maxN, maxF) ==
  \/ \E s \in Szs : resize(s[1], s[2])
  \/ /\ Len(nodes) < maxN
     /\ \E p \in Pts, sd \in Sds, tx \in Txts : createNode(tx, p[1], p[2], sd)
  \/ /\ Len(nodes) < maxN
     /\ \E v \in Vals, sd \in Sds : submit(v, 50, 50, sd)
  \/ /\ frames < maxF
     /\ \E t \in Ts : frame(t)

\* Spec: the force pass, the flags and the links, on a 600 x 400 canvas; the
\* first frame runs with the default dt, the later ones 33 ms apart
ForceSizes == { <<600, 400>> }
ForcePoints == { <<100, 100>>, <<110, 100>>, <<148, 100>>, <<220, 100>>,
                 <<250, 100>>, <<500, 100>> }

Init == InitWith(ForceSizes)
Next == NextWith(ForceSizes, ForcePoints, Seeds, {Word}, {Word},
                 { Num(lastTime + maxDt) },
                 MaxNodes, MaxFrames)
Spec == Init /\ [][Next]_vars

\* SpecWrap: nodes created or left outside the 40px margin, resizes, and
\* frames with equal timestamps (dt = 0)
WrapSizes == { <<600, 400>>, <<400, 300>> }
WrapPoints == { <<641, 100>>, <<-41, 100>>, <<100, -41>>, <<100, 441>>,
                <<100, 100>>, <<110, 100>> }
WrapTimes == { Num(16) }

InitWrap == InitWith(WrapSizes)
NextWrap == NextWith(WrapSizes, WrapPoints, {SeedOut}, {Word}, {Word}, WrapTimes,
                     WrapNodes, WrapFrames)
SpecWrap == InitWrap /\ [][NextWrap]_vars

\* SpecInput: the texts the two entry points are given and the timestamps
\* the host passes (missing, zero, equal, going backwards, far apart)
InputTexts == { <<>>, Blank, <<"\t">>, Word }
InputValues == { <<>>, Blank, <<" ", "a", "\t">>, Word }
InputTimes == { Undefined, Num(0), Num(5), Num(16), Num(100) }

InitInput == InitWith(ForceSizes)
NextInput == NextWith(ForceSizes, { <<100, 100>> }, {SeedOut}, InputTexts,
                      InputValues, InputTimes, InputNodes, InputFrames)
SpecInput == InitInput /\ [][NextInput]_vars

\* SpecTrail: long runs, one frame every 16 ms
TrailPoints == { <<641, 100>> }

InitTrail == InitWith(ForceSizes)
NextTrail == NextWith(ForceSizes, TrailPoints, {SeedOut}, {Word}, {Word},
                      { Num(lastTime + defaultDt) }, TrailNodes, TrailFrames)
SpecTrail == InitTrail /\ [][NextTrail]_vars

----------------------------------------------------------------------------
(* Properties *)

Idx == 1..Len(nodes)
Sq(k) == k * k

\* whether STATE.links holds a record for the index pair (i, j)
Linked(i, j) == \E k \in 1..Len(links) : links[k].i = i /\ links[k].j = j

\* C1: after every rebuildLinks (the end of a step with at least one node)
\* STATE.links holds a record for (i, j) iff i < j and the two nodes, where
\* this tick's motion left them, are less than 120 apart; no pair appears
\* twice; nothing of the previous link set survives.
C1_LinksMatchDistances ==
  ran =>
    /\ \A i \in Idx, j \in Idx :
         Linked(i, j) <=>
           (i < j /\ DistSq(nodes[i], nodes[j]) < Sq(constellationDistance))
    /\ \A k \in 1..Len(links), l \in 1..Len(links) :
         (links[k].i = links[l].i /\ links[k].j = links[l].j) => k = l

\* a tick with dt > 0 moved two nodes that were 120 or more apart to less
\* than 120, and the rebuilt link set holds their link
C1_Witness ==
  /\ ran /\ dt > 0 /\ Len(links) = 1
  /\ DistSq(pre[links[1].i], pre[links[1].j]) >= Sq(constellationDistance)

\* C4 as stated: when drawNodes reads the flags (after step), a node's
\* inConstellation is true iff another node is within 120 of it at the
\* positions being drawn.
C4_FlagMatchesDrawnPositions ==
  ran =>
    \A i \in Idx :
      nodes[i].inConstellation <=>
        \E j \in Idx \ {i} : DistSq(nodes[i], nodes[j]) < Sq(constellationDistance)

\* C4 amended: the flag drawNodes reads is true iff another node was within
\* 120 of the node at the positions the tick started from (before its motion).
C4_FlagMatchesStartPositions ==
  ran =>
    \A i \in Idx :
      nodes[i].inConstellation <=>
        \E j \in Idx \ {i} : DistSq(pre[i], pre[j]) < Sq(constellationDistance)

\* a label is drawn for a node that has no neighbour within 120 where it is drawn
C4_Witness ==
  /\ ran
  /\ \E i \in Idx :
       /\ nodes[i].inConstellation
       /\ \A j \in Idx \ {i} : DistSq(nodes[i], nodes[j]) >= Sq(constellationDistance)

\* the pairs of nodes that were exactly 150 apart when the last step started
Apart150 ==
  { p \in Idx \X Idx : p[1] < p[2] /\ DistSq(pre[p[1]], pre[p[2]]) = Sq(150) }

\* C5 as stated: two nodes exactly 150 apart at the start of a tick are both
\* flagged inConstellation by its force pass and get exactly one link.
C5_Flagged150 ==
  ran =>
    \A p \in Apart150 :
      /\ nodes[p[1]].inConstellation /\ nodes[p[2]].inConstellation
      /\ Cardinality({k \in 1..Len(links) : links[k].i = p[1] /\ links[k].j = p[2]}) = 1

\* C5 amended: two nodes exactly 150 apart at the start of a tick are in the
\* attraction band but not within constellationDistance: the pass applies
\* attraction only, flags neither on account of the other, and the link
\* builder gives them at most one link, present iff the tick's motion left
\* them less than 120 apart.
C5_Attracted150 ==
  ran =>
    \A p \in Apart150 :
      /\ \A k \in 1..Len(evals) :
           (evals[k].i = p[1] /\ evals[k].j = p[2]) => evals[k].forces = {"attract"}
      /\ \A q \in {p[1], p[2]} :
           nodes[q].inConstellation =>
             \E j \in Idx \ {p[1], p[2]} :
               DistSq(pre[q], pre[j]) < Sq(constellationDistance)
      /\ Cardinality({k \in 1..Len(links) : links[k].i = p[1] /\ links[k].j = p[2]}) <= 1
      /\ Linked(p[1], p[2]) <=>
           DistSq(nodes[p[1]], nodes[p[2]]) < Sq(constellationDistance)

\* a tick started with two nodes 150 apart and left them unflagged
C5_Witness ==
  /\ ran
  /\ \E p \in Apart150 :
       ~nodes[p[1]].inConstellation /\ ~nodes[p[2]].inConstellation

\* the evaluations of the last force pass that involve node i
EvalsOf(i) == {k \in 1..Len(evals) : evals[k].i = i \/ evals[k].j = i}

\* C7: in one force pass every unordered pair is evaluated exactly once and
\* receives at most one of attraction and repulsion: attraction only when
\* 48 < dist < 400, repulsion only when dist < 24, nothing (no velocity
\* change) when dist is in [24, 48] or is 400 or more.  dist is the code's
\* sqrt(distSq) + 1e-6: on whole pixels dist > 48 is distSq >= 48^2 and
\* dist < K is distSq < K^2.
C7_OneForcePerPair ==
  ran =>
    /\ \A i \in Idx, j \in Idx :
         Cardinality({k \in 1..Len(evals) :
                        {evals[k].i, evals[k].j} = {i, j}}) = (IF i = j THEN 0 ELSE 1)
    /\ \A k \in 1..Len(evals) :
         LET d2 == DistSq(pre[evals[k].i], pre[evals[k].j])
             f == evals[k].forces
         IN /\ Cardinality(f) <= 1
            /\ "attract" \in f => (d2 >= Sq(minLinkDistance) /\ d2 < Sq(400))
            /\ "repel" \in f => d2 < Sq(repulsionDistance)
            /\ (d2 >= Sq(repulsionDistance) /\ d2 < Sq(minLinkDistance)) => f = {}
            /\ d2 >= Sq(400) => f = {}
    /\ \A i \in Idx :
         (\A k \in EvalsOf(i) : evals[k].forces = {}) =>
           (nodes[i].vx = pre[i].vx /\ nodes[i].vy = pre[i].vy)

\* a tick with dt > 0 evaluated a pair in the dead zone and left it alone
C7_Witness ==
  /\ ran /\ dt > 0
  /\ \E k \in 1..Len(evals) :
       LET d2 == DistSq(pre[evals[k].i], pre[evals[k].j])
       IN d2 >= Sq(repulsionDistance) /\ d2 < Sq(minLinkDistance) /\ evals[k].forces = {}

\* b < a as JavaScript compares: false unless both are numbers
JsLess(b, a) == IsNum(a) /\ IsNum(b) /\ b.v < a.v

\* C9: a node at (100,100) and a second at (110,100): after one tick with
\* dt > 0 both velocities are numbers, the first node's vx decreased and the
\* second's increased, and no attraction was applied.
C9_PushedApart ==
  ( /\ ran /\ dt > 0 /\ Len(pre) = 2
    /\ pre[1].x = 100 /\ pre[1].y = 100 /\ pre[2].x = 110 /\ pre[2].y = 100 )
  => /\ IsNum(nodes[1].vx) /\ IsNum(nodes[2].vx)
     /\ JsLess(nodes[1].vx, pre[1].vx)
     /\ JsLess(pre[2].vx, nodes[2].vx)
     /\ evals[1].forces = {"repel"}

\* the last n elements of a sequence
LastN(q, n) == SubSeq(q, Len(q) - n + 1, Len(q))

\* C2: every trail has at most 40 samples and is the last 40 (or all, while
\* fewer) of the samples ever appended to it, in insertion order; after each
\* tick the last sample's (x, y) is the node's position.
C2_TrailBounded ==
  \A i \in Idx :
    LET tr == nodes[i].trail
    IN /\ Len(tr) <= 40
       /\ Len(tr) = Min2(40, Len(hist[i]))
       /\ tr = LastN(hist[i], Len(tr))
       /\ ran => (tr # <<>> /\ tr[Len(tr)].x = nodes[i].x /\ tr[Len(tr)].y = nodes[i].y)

\* a node has been given more than 40 samples and its oldest were evicted
C2_Witness ==
  \E i \in Idx :
    /\ ran /\ Len(hist[i]) > 40 /\ Len(nodes[i].trail) = 40
    /\ nodes[i].trail[1] = hist[i][Len(hist[i]) - 39]

\* node i lies within the wrap margin of the canvas, on the x axis / y axis
InMarginX(n) == n.x >= -40 /\ n.x <= width + 40
InMarginY(n) == n.y >= -40 /\ n.y <= height + 40

\* C3 as stated: step(0) leaves every node's position, velocity and orbit
\* phases as they were, also for a node outside the wrap margin.
C3_ZeroDtNoOp ==
  (ran /\ dt = 0) =>
    \A i \in Idx :
      /\ nodes[i].x = pre[i].x /\ nodes[i].y = pre[i].y
      /\ nodes[i].vx = pre[i].vx /\ nodes[i].vy = pre[i].vy
      /\ nodes[i].orbitPhase = pre[i].orbitPhase
      /\ nodes[i].secondaryPhase = pre[i].secondaryPhase

\* node i has another node in the repulsion band (dist < 24) or in the
\* attraction band (48 < dist < 400) at the start of the step
InForceBand(i) ==
  \E j \in Idx \ {i} :
    LET d2 == DistSq(pre[i], pre[j])
    IN d2 < Sq(repulsionDistance) \/ (d2 >= Sq(minLinkDistance) /\ d2 < Sq(400))

\* C3 amended: step(0) leaves the orbit phases of every node as they were;
\* it leaves x (y) as it was for a node within the wrap margin on that axis,
\* and teleports a node outside it; it leaves the velocity as it was unless
\* the node has another node in a force band, and then the velocity, which
\* nothing initialises, is NaN.
C3_ZeroDtKeepsInMargin ==
  (ran /\ dt = 0) =>
    \A i \in Idx :
      /\ nodes[i].orbitPhase = pre[i].orbitPhase
      /\ nodes[i].secondaryPhase = pre[i].secondaryPhase
      /\ InMarginX(pre[i]) => nodes[i].x = pre[i].x
      /\ InMarginY(pre[i]) => nodes[i].y = pre[i].y
      /\ ~InMarginX(pre[i]) => nodes[i].x # pre[i].x
      /\ ~InMarginY(pre[i]) => nodes[i].y # pre[i].y
      /\ ~InForceBand(i) => (nodes[i].vx = pre[i].vx /\ nodes[i].vy = pre[i].vy)
      /\ InForceBand(i) => (nodes[i].vx = NaN /\ nodes[i].vy = NaN)

\* a step with dt = 0 saw a node outside the margin and teleported it, and
\* left a node inside the margin where it was
C3_Witness ==
  /\ ran /\ dt = 0
  /\ \E i \in Idx : pre[i].x > width + 40 /\ nodes[i].x = -40
  /\ \E i \in Idx : InMarginX(pre[i]) /\ InMarginY(pre[i]) /\ nodes[i].x = pre[i].x

\* all characters of a text are white space (the empty text included)
AllBlank(text) == \A k \in 1..Len(text) : text[k] \in WhiteSpace

\* C6: adding a node with empty or whitespace-only text leaves the node
\* sequence as it was, on the form-submit path and on createNode called
\* directly.
C6_BlankTextIsNoOp ==
  (last \in {"create", "submit"} /\ AllBlank(arg)) => nodes = pre

\* C8: a node the wrap checks see beyond the right margin (x = width + 41)
\* ends the tick at x = -40 with its orbit centre within 200 of that, after
\* one teleport; likewise to the left, top and bottom; a node seen within
\* the margin is not moved; so after a tick every node is within the margin.
C8_WrapOnce ==
  ran =>
    \A i \in Idx :
      /\ obs[i].x > width + 40 =>
           /\ nodes[i].x = -40 /\ obs[i].tx = 1
           /\ Abs(nodes[i].orbitCenterX - nodes[i].x) <= 200
      /\ obs[i].x < -40 =>
           /\ nodes[i].x = width + 40 /\ obs[i].tx = 1
           /\ Abs(nodes[i].orbitCenterX - nodes[i].x) <= 200
      /\ obs[i].y > height + 40 =>
           /\ nodes[i].y = -40 /\ obs[i].ty = 1
           /\ Abs(nodes[i].orbitCenterY - nodes[i].y) <= 200
      /\ obs[i].y < -40 =>
           /\ nodes[i].y = height + 40 /\ obs[i].ty = 1
           /\ Abs(nodes[i].orbitCenterY - nodes[i].y) <= 200
      /\ (obs[i].x >= -40 /\ obs[i].x <= width + 40) =>
           (nodes[i].x = obs[i].x /\ obs[i].tx = 0)
      /\ (obs[i].y >= -40 /\ obs[i].y <= height + 40) =>
           (nodes[i].y = obs[i].y /\ obs[i].ty = 0)
      /\ InMarginX(nodes[i]) /\ InMarginY(nodes[i])

\* the wrap checks saw a node at x = width + 41 and it ended the tick at -40
C8_Witness ==
  /\ ran
  /\ \E i \in Idx : obs[i].x = width + 41 /\ nodes[i].x = -40

\* C10: the dt frame passes to step is 16 ms on the first frame only, and on
\* every later frame the difference of the two timestamps clamped to
\* [0, 33] ms; it is always within [0, 33].
C10_DtIsClampedDelta ==
  /\ frames = 1 => dt = 16
  /\ frames > 1 =>
       dt = (IF curTime - prevTime < 0 THEN 0
             ELSE IF curTime - prevTime > 33 THEN 33 ELSE curTime - prevTime)
  /\ dt >= 0 /\ dt <= 33

====
